---- MODULE Spec2Model ----
(***************************************************************************)
(* Request-path dataplane of the OpenRouter middleware: the upstream-key   *)
(* registry (KeyManager), the per-key circuit breaker, the key rotator     *)
(* and the retrying proxy (ProxyService.proxy_request).                    *)
(*                                                                         *)
(* Time is the integer number of seconds read by datetime.utcnow().  The   *)
(* state store is modelled at the level of its records: one record per     *)
(* upstream fingerprint plus the set "openrouter:active".                  *)
(***************************************************************************)
EXTENDS Integers, Sequences, FiniteSets, TLC

\* ---------------------------------------------------------------- bounds
Keys == {"k1", "k2"}
Reqs == {"r1"}
OneKey == {"k1"}
MaxTicks == 2
MaxFailures == 5
MaxUsage == 1
MaxHanded == 3
CKeys == {"c1"}
Users == {"u1", "u2"}
Procs == {"p1", "p2"}
OneProc == {"p1"}
RateLimits == {60}
MaxValidations == 2
MaxBulk == 3
TickSteps == {30, 3600}

\* ------------------------------------------------------ program constants
max_retries == 3
failure_threshold == 5
recovery_timeout == 60
max_half_open_calls == 3
disable_threshold == 5
min_length == 20
rate_limit_seconds == 3600

None == -1
Strategies == {"weighted", "round_robin"}
DefaultStrategy == "weighted"

\* Upstream outcomes of one attempt: an HTTP status, or a transport error.
Statuses == {200, 404, 429, 500}
Outcomes == [kind : {"response"}, status : Statuses]
            \cup [kind : {"timeout", "connect_error"}, status : {0}]

VARIABLES
    now,          \* datetime.utcnow(), in seconds
    ticks,        \* number of clock steps taken
    store,        \* openrouter:<hash> records, a function on the stored keys
    active,       \* the set openrouter:active
    rotators,     \* KeyRotationManager.rotators: strategies with a rotator
    strategy,     \* KeyRotationManager.current_strategy
    cb,           \* KeyRotator.circuit_breakers, per strategy and key
    rr_index,     \* KeyRotator.round_robin_index, per strategy
    pc,           \* position of each request in proxy_request
    attempt,      \* loop variable of proxy_request
    key_hash,     \* local variable key_hash of proxy_request ("none": unbound)
    sel_rot,      \* the rotator (strategy) running the request's select_key
    pending,      \* members of openrouter:active still to be read by the call
    healthy_keys, \* healthy_keys being built by get_healthy_openrouter_keys
    response,     \* status answered to the client (None: no answer yet)
    handed,       \* keys handed out by select_key calls made outside proxy_request
    hist,         \* history variables (observations, not program state)
    client_keys,  \* clientkey:<hash> records, a function on the stored keys
    user_keys,    \* user_keys:<user_id> sets
    cpc,          \* position of each caller inside a client-key operation
    clocal,       \* local variables of that operation
    rate,         \* rate_limit:<user_id>:<minute> counters, the live one per user
    chist         \* history variables of the client-key side

clientVars == <<client_keys, user_keys, cpc, clocal, rate, chist>>

vars == <<now, ticks, store, active, rotators, strategy, cb, rr_index, pc,
          attempt, key_hash, sel_rot, pending, healthy_keys, response, handed,
          hist, client_keys, user_keys, cpc, clocal, rate, chist>>

\* ------------------------------------------------------- CircuitBreaker
CircuitBreaker == [state |-> "closed", failure_count |-> 0,
                   last_failure_time |-> None, half_open_calls |-> 0]

\* can_execute returns a verdict and may move the breaker to half-open.
can_execute(b, t) ==
    IF b.state = "closed" THEN [ok |-> TRUE, b |-> b]
    ELSE IF b.state = "open" THEN
        IF b.last_failure_time # None /\ t - b.last_failure_time > recovery_timeout
        THEN [ok |-> TRUE, b |-> [b EXCEPT !.state = "half_open", !.half_open_calls = 0]]
        ELSE [ok |-> FALSE, b |-> b]
    ELSE [ok |-> b.half_open_calls < max_half_open_calls, b |-> b]

\* Variant: a success closes the breaker whatever its state.
on_success_closing(b) ==
    [state |-> "closed", failure_count |-> 0, last_failure_time |-> None,
     half_open_calls |-> 0]

\* Variant: a success closes a half-open breaker and resets the failure
\* count only.
on_success_count_only(b) ==
    [state |-> IF b.state = "half_open" THEN "closed" ELSE b.state,
     failure_count |-> 0, last_failure_time |-> b.last_failure_time,
     half_open_calls |-> b.half_open_calls]

on_success(b) ==
    [state |-> IF b.state = "half_open" THEN "closed" ELSE b.state,
     failure_count |-> 0, last_failure_time |-> None, half_open_calls |-> 0]

\* Variant: the breaker opens one failure after the threshold.
on_failure_late(b, t) ==
    LET n == b.failure_count + 1 IN
    IF b.state = "half_open"
    THEN [state |-> "open", failure_count |-> n, last_failure_time |-> t,
          half_open_calls |-> 0]
    ELSE [state |-> IF n > failure_threshold THEN "open" ELSE b.state,
          failure_count |-> n, last_failure_time |-> t,
          half_open_calls |-> b.half_open_calls]

\* Variant: a failure in half-open reopens the breaker only at the threshold.
on_failure_counting(b, t) ==
    LET n == b.failure_count + 1 IN
    [state |-> IF n >= failure_threshold THEN "open" ELSE b.state,
     failure_count |-> n, last_failure_time |-> t,
     half_open_calls |-> IF b.state = "half_open" THEN 0 ELSE b.half_open_calls]

on_failure(b, t) ==
    LET n == b.failure_count + 1 IN
    IF b.state = "half_open"
    THEN [state |-> "open", failure_count |-> n, last_failure_time |-> t,
          half_open_calls |-> 0]
    ELSE [state |-> IF n >= failure_threshold THEN "open" ELSE b.state,
          failure_count |-> n, last_failure_time |-> t,
          half_open_calls |-> b.half_open_calls]

\* Variant: a selection in half-open is not counted.
on_call_attempt_uncounted(b) == b

\* Variant: a selection is counted in every state.
on_call_attempt_always(b) == [b EXCEPT !.half_open_calls = b.half_open_calls + 1]

on_call_attempt(b) ==
    IF b.state = "half_open"
    THEN [b EXCEPT !.half_open_calls = b.half_open_calls + 1]
    ELSE b

\* The last method called on a breaker: the breaker before the call, the time
\* of the call and what the call returned.
NoCall == [op |-> "none", key |-> "none", before |-> CircuitBreaker,
           at |-> 0, ok |-> FALSE]

\* ---------------------------------------------------- OpenRouterKeyData
\* A record as add_openrouter_key stores it.  complete = FALSE marks a hash
\* that lacks the fields key_hash and added_at (written by an update only);
\* the other fields then read as the defaults of key_data.get(...).
OpenRouterKeyData == [complete |-> TRUE, is_active |-> TRUE, is_healthy |-> TRUE,
                      failure_count |-> 0, rate_limit_reset |-> None,
                      usage_count |-> 0]

is_rate_limited(rec, t) ==
    IF rec.rate_limit_reset = None THEN FALSE ELSE t < rec.rate_limit_reset

\* ----------------------------------------------------------- KeyManager
\* Registry operations map a registry state S = [store, active] to the next.
hash_set(st, k, rec) == [x \in DOMAIN st \cup {k} |-> IF x = k THEN rec ELSE st[x]]

\* RedisOperations.hash_set_safely: a store that raises (up = FALSE) leaves the
\* hash as it is, and the error is logged, not raised.
hash_set_safely(st, k, rec, up) == IF up THEN hash_set(st, k, rec) ELSE st

\* Variant: no look-up of an existing record before the write.
add_openrouter_key_unchecked(S, k) ==
    [store |-> hash_set(S.store, k, OpenRouterKeyData),
     active |-> S.active \cup {k},
     result |-> k]

\* result is the value returned: the fingerprint, or "nil" for None.
add_openrouter_key(S, k) ==
    IF k \in DOMAIN S.store
    THEN [store |-> S.store, active |-> S.active, result |-> "nil"]
    ELSE [store |-> hash_set(S.store, k, OpenRouterKeyData),
          active |-> S.active \cup {k},
          result |-> k]

delete_openrouter_key(S, k) ==
    [store |-> [x \in DOMAIN S.store \ {k} |-> S.store[x]],
     active |-> S.active \ {k}]

\* A plaintext is its text without surrounding whitespace (core) and whether
\* whitespace surrounds it (pad); "sk" is a text shorter than min_length.
Plaintexts == {[core |-> "sk1", pad |-> FALSE], [core |-> "sk1", pad |-> TRUE],
               [core |-> "sk2", pad |-> FALSE], [core |-> "sk", pad |-> TRUE]}

raw_length(p) ==
    (CASE p.core = "sk1" -> min_length
       [] p.core = "sk2" -> min_length + 1
       [] OTHER -> min_length - 2)
    + (IF p.pad THEN 1 ELSE 0)

\* OpenRouterKeyCreate(api_key=...): the length constraint on the text as
\* given, then the validator that strips it; "invalid" stands for the
\* ValidationError raised.
OpenRouterKeyCreate(p) ==
    IF raw_length(p) < min_length THEN "invalid" ELSE p.core

\* hash_api_key: SHA-256 of the text, one fingerprint per text.
hash_api_key(api_key) ==
    CASE api_key = "sk1" -> "k1"
      [] api_key = "sk2" -> "k2"

BulkImportResponse(n) ==
    [total_keys |-> n, successful_imports |-> 0, failed_imports |-> 0,
     errors |-> <<>>, imported_hashes |-> <<>>]

\* Variant: the loop ends at the first key that fails.
RECURSIVE bulk_import_stopping(_, _, _, _)
bulk_import_stopping(S, keys, i, r) ==
    IF i > Len(keys) THEN [S |-> S, response |-> r]
    ELSE LET key_create == OpenRouterKeyCreate(keys[i]) IN
         IF key_create = "invalid"
         THEN [S |-> S,
               response |-> [r EXCEPT !.failed_imports = @ + 1,
                                      !.errors = Append(@, "failed")]]
         ELSE LET A == add_openrouter_key(S, hash_api_key(key_create)) IN
              IF A.result # "nil"
              THEN bulk_import_stopping([store |-> A.store, active |-> A.active],
                       keys, i + 1,
                       [r EXCEPT !.successful_imports = @ + 1,
                                 !.imported_hashes = Append(@, A.result)])
              ELSE [S |-> S,
                    response |-> [r EXCEPT !.failed_imports = @ + 1,
                                           !.errors = Append(@, "exists")]]

\* bulk_import_openrouter_keys from key i of the list on, r being the
\* counters and lists built so far.
RECURSIVE bulk_import_openrouter_keys(_, _, _, _)
bulk_import_openrouter_keys(S, keys, i, r) ==
    IF i > Len(keys) THEN [S |-> S, response |-> r]
    ELSE LET key_create == OpenRouterKeyCreate(keys[i]) IN
         IF key_create = "invalid"
         THEN bulk_import_openrouter_keys(S, keys, i + 1,
                  [r EXCEPT !.failed_imports = @ + 1,
                            !.errors = Append(@, "failed")])
         ELSE LET A == add_openrouter_key(S, hash_api_key(key_create)) IN
              IF A.result # "nil"
              THEN bulk_import_openrouter_keys([store |-> A.store, active |-> A.active],
                       keys, i + 1,
                       [r EXCEPT !.successful_imports = @ + 1,
                                 !.imported_hashes = Append(@, A.result)])
              ELSE bulk_import_openrouter_keys(S, keys, i + 1,
                       [r EXCEPT !.failed_imports = @ + 1,
                                 !.errors = Append(@, "exists")])

NoImport == [keys |-> <<>>, response |-> BulkImportResponse(0), before |-> {}]

\* Variant: the key is disabled only above the threshold.
mark_key_unhealthy_late(S, k) ==
    IF k \notin DOMAIN S.store THEN S
    ELSE LET n == S.store[k].failure_count + 1 IN
         [store |-> hash_set(S.store, k,
                      [S.store[k] EXCEPT !.failure_count = n,
                                         !.is_healthy = ~(n > disable_threshold)]),
          active |-> IF n > disable_threshold THEN S.active \ {k} ELSE S.active]

mark_key_unhealthy(S, k) ==
    IF k \notin DOMAIN S.store THEN S
    ELSE LET n == S.store[k].failure_count + 1 IN
         [store |-> hash_set(S.store, k,
                      [S.store[k] EXCEPT !.failure_count = n,
                                         !.is_healthy = ~(n >= disable_threshold)]),
          active |-> IF n >= disable_threshold THEN S.active \ {k} ELSE S.active]

\* hset without a check for the record: on an absent key it creates a hash
\* holding only rate_limit_reset and is_healthy.
mark_key_rate_limited(S, k, reset_time) ==
    LET old == IF k \in DOMAIN S.store THEN S.store[k]
               ELSE [OpenRouterKeyData EXCEPT !.complete = FALSE] IN
    [store |-> hash_set(S.store, k,
                 [old EXCEPT !.rate_limit_reset = reset_time, !.is_healthy = FALSE]),
     active |-> S.active]

\* Variant: a success also clears the rate-limit mark.
update_key_usage_clearing(S, k) ==
    IF k \notin DOMAIN S.store THEN S
    ELSE [store |-> hash_set(S.store, k,
                      [S.store[k] EXCEPT !.usage_count = @ + 1, !.is_healthy = TRUE,
                                         !.failure_count = 0,
                                         !.rate_limit_reset = None]),
          active |-> S.active]

update_key_usage(S, k) ==
    IF k \notin DOMAIN S.store THEN S
    ELSE [store |-> hash_set(S.store, k,
                      [S.store[k] EXCEPT !.usage_count = @ + 1, !.is_healthy = TRUE,
                                         !.failure_count = 0]),
          active |-> S.active]

\* Variant: the filter without the rate-limit test.
is_eligible_unlimited(rec, t) == rec.is_active /\ rec.is_healthy

\* The filter of get_healthy_openrouter_keys on one parsed record.
is_eligible(rec, t) == rec.is_active /\ rec.is_healthy /\ ~is_rate_limited(rec, t)

\* get_openrouter_keys: parsing a hash without key_hash/added_at raises, and
\* the except clause turns that into the empty list.
get_openrouter_keys(S) ==
    IF \E k \in DOMAIN S.store : ~S.store[k].complete THEN {}
    ELSE DOMAIN S.store

cleanup_expired_rate_limits(S, t) ==
    LET due == {k \in get_openrouter_keys(S) :
                  /\ S.store[k].rate_limit_reset # None
                  /\ S.store[k].rate_limit_reset < t
                  /\ ~S.store[k].is_healthy} IN
    [store |-> [k \in DOMAIN S.store |->
                  IF k \in due
                  THEN [S.store[k] EXCEPT !.is_healthy = TRUE,
                                          !.rate_limit_reset = None,
                                          !.failure_count = 0]
                  ELSE S.store[k]],
     active |-> S.active \cup due]

\* ------------------------------------------- KeyRotator / rotation manager
\* W bundles the state the rotation engine works on.
World == [store |-> store, active |-> active, rotators |-> rotators, cb |-> cb,
          rr |-> rr_index, hist |-> hist]

registry(W) == [store |-> W.store, active |-> W.active]

get_rotator(W, s) == [W EXCEPT !.rotators = @ \cup {s}]

report_success(W, s, k) ==
    LET S == update_key_usage(registry(W), k) IN
    [get_rotator(W, s) EXCEPT
        !.cb[s][k] = on_success(@),
        !.store = S.store,
        !.active = S.active,
        !.hist = [@ EXCEPT !.probes[s][k] = 0, !.consec[k] = 0, !.consec_x[k] = 0]]

report_failure(W, s, k, is_rate_limit, t) ==
    LET b0 == W.cb[s][k]
        b1 == on_failure(b0, t)
        S  == IF is_rate_limit
              THEN mark_key_rate_limited(registry(W), k, t + rate_limit_seconds)
              ELSE mark_key_unhealthy(registry(W), k)
        counted == ~is_rate_limit /\ k \in DOMAIN W.store
    IN
    [get_rotator(W, s) EXCEPT
        !.cb[s][k] = b1,
        !.store = S.store,
        !.active = S.active,
        !.hist = [@ EXCEPT
            !.probes[s][k] = 0,
            !.opened_at[s][k] = IF b1.state = "open" /\ b0.state # "open" THEN t ELSE @,
            !.consec[k] = IF counted THEN @ + 1 ELSE @,
            !.consec_x[k] = IF counted THEN @ + 1 ELSE @]]

Range(q) == {q[i] : i \in 1..Len(q)}

\* The breaker filter of select_key: can_execute is called once for every
\* key of healthy_keys and its state change stays, selected or not.
filter_keys(W, s, hk, t) ==
    [W EXCEPT !.cb[s] = [k \in Keys |-> IF k \in Range(hk)
                                        THEN can_execute(W.cb[s][k], t).b
                                        ELSE W.cb[s][k]]]

admitted(W, s, k, t) == can_execute(W.cb[s][k], t).ok

\* Variant: every healthy key passes the breaker filter.
available_keys_unfiltered(W, s, hk, t) == hk

available_keys(W, s, hk, t) == SelectSeq(hk, LAMBDA k : admitted(W, s, k, t))

\* Variant: the round-robin cursor stays where it is.
select_by_strategy_parked(s, avail, rr, c) ==
    IF s = "round_robin"
    THEN LET i == IF rr >= Len(avail) THEN 0 ELSE rr IN
         [index |-> i + 1, rr |-> i]
    ELSE [index |-> c, rr |-> rr]

\* _select_by_strategy: index (from 1) of the selected entry of avail and the
\* next cursor.  The weighted draw can return every entry (all weights are
\* at least 0.1), so the draw is the free choice c.
select_by_strategy(s, avail, rr, c) ==
    IF s = "round_robin"
    THEN LET i == IF rr >= Len(avail) THEN 0 ELSE rr IN
         [index |-> i + 1, rr |-> (i + 1) % Len(avail)]
    ELSE [index |-> c, rr |-> rr]

\* The rest of select_key once a key is selected: on_call_attempt, and the
\* count of probes handed out while the breaker is half-open.
mark_selected(W, s, k, rr) ==
    [W EXCEPT !.cb[s][k] = on_call_attempt(@),
              !.rr[s] = rr,
              !.hist = [@ EXCEPT !.probes[s][k] =
                           IF W.cb[s][k].state = "half_open" THEN @ + 1 ELSE @]]

cleanup_loop(W, t) ==
    IF W.rotators = {} THEN W
    ELSE LET S == cleanup_expired_rate_limits(registry(W), t)
             due == {k \in DOMAIN W.store : S.store[k] # W.store[k]} IN
         [W EXCEPT !.store = S.store, !.active = S.active,
                   !.hist = [@ EXCEPT !.consec_x = [k \in Keys |->
                                 IF k \in due THEN 0 ELSE @[k]]]]

\* ------------------------------------------------------------ proxy_request
NoAttempt == [sel |-> "none", kind |-> "none", status |-> None, nS |-> 0, nF |-> 0]

SetWorld(W) ==
    /\ store' = W.store
    /\ active' = W.active
    /\ rotators' = W.rotators
    /\ cb' = W.cb
    /\ rr_index' = W.rr
    /\ hist' = W.hist

\* rotation_manager.select_key() starts: get_rotator(current_strategy), then
\* the call waits for the members of openrouter:active.
EnterSelect(W, r) ==
    /\ SetWorld(get_rotator(W, strategy))
    /\ sel_rot' = [sel_rot EXCEPT ![r] = strategy]
    /\ pending' = [pending EXCEPT ![r] = {}]
    /\ healthy_keys' = [healthy_keys EXCEPT ![r] = <<>>]

LeaveSelect(r) ==
    /\ pending' = [pending EXCEPT ![r] = {}]
    /\ healthy_keys' = [healthy_keys EXCEPT ![r] = <<>>]
    /\ UNCHANGED sel_rot

\* "All retries exhausted": the for loop ran out, HTTPException(502).
Exhausted(r) ==
    /\ pc' = [pc EXCEPT ![r] = "done"]
    /\ attempt' = [attempt EXCEPT ![r] = max_retries]
    /\ response' = [response EXCEPT ![r] = 502]

\* Variant: the loop test lets one more iteration start.
Continue_once_more(W, r) ==
    IF attempt[r] + 1 <= max_retries
    THEN /\ pc' = [pc EXCEPT ![r] = "select"]
         /\ attempt' = [attempt EXCEPT ![r] = attempt[r] + 1]
         /\ UNCHANGED response
         /\ EnterSelect(W, r)
    ELSE /\ Exhausted(r)
         /\ SetWorld(W)
         /\ LeaveSelect(r)

\* "continue": the next iteration starts at once, the sleep is skipped.
Continue(W, r) ==
    IF attempt[r] + 1 < max_retries
    THEN /\ pc' = [pc EXCEPT ![r] = "select"]
         /\ attempt' = [attempt EXCEPT ![r] = attempt[r] + 1]
         /\ UNCHANGED response
         /\ EnterSelect(W, r)
    ELSE /\ Exhausted(r)
         /\ SetWorld(W)
         /\ LeaveSelect(r)

\* Variant: the except clause gives up one iteration early.
AfterExcept_early(W, r) ==
    /\ SetWorld(W)
    /\ LeaveSelect(r)
    /\ IF attempt[r] < max_retries - 2
       THEN /\ pc' = [pc EXCEPT ![r] = "backoff"]
            /\ UNCHANGED <<attempt, response>>
       ELSE Exhausted(r)

\* The end of an iteration left through an except clause.
AfterExcept(W, r) ==
    /\ SetWorld(W)
    /\ LeaveSelect(r)
    /\ IF attempt[r] < max_retries - 1
       THEN /\ pc' = [pc EXCEPT ![r] = "backoff"]
            /\ UNCHANGED <<attempt, response>>
       ELSE Exhausted(r)

Observe(W, r, att) == [W EXCEPT !.hist.att[r] = att]

\* One more iteration of the request ended without a return.
Failed(W, r) == [W EXCEPT !.hist.fails[r] = @ + 1]

\* select_key returned None: HTTPException(503) is raised inside the try and
\* caught by "except Exception"; key_hash still holds the key of an earlier
\* attempt of the request, if there was one.
NilPath(W, r) ==
    LET W1 == IF key_hash[r] # "none"
              THEN report_failure(W, strategy, key_hash[r], FALSE, now)
              ELSE W
        att == [NoAttempt EXCEPT !.sel = "nil",
                                 !.nF = IF key_hash[r] # "none" THEN 1 ELSE 0]
    IN /\ AfterExcept(Failed(Observe(W1, r, att), r), r)
       /\ UNCHANGED key_hash

KeyPath(W, r, k) ==
    /\ SetWorld([Observe(W, r, [NoAttempt EXCEPT !.sel = k])
                    EXCEPT !.hist.calls[r] = @ + 1])
    /\ LeaveSelect(r)
    /\ key_hash' = [key_hash EXCEPT ![r] = k]
    /\ pc' = [pc EXCEPT ![r] = "inflight"]
    /\ UNCHANGED <<attempt, response>>

\* healthy_keys is complete: breaker filter, strategy, on_call_attempt.
FinishSelect(W, r, hk) ==
    LET s == sel_rot[r] IN
    IF hk = <<>> THEN NilPath(W, r)
    ELSE LET avail == available_keys(W, s, hk, now)
             W1 == filter_keys(W, s, hk, now) IN
         IF avail = <<>> THEN NilPath(W1, r)
         ELSE \E c \in 1..Len(avail) :
                LET sel == select_by_strategy(s, avail, W1.rr[s], c)
                    k == avail[sel.index] IN
                KeyPath(mark_selected(W1, s, k, sel.rr), r, k)

StartRequest(r) ==
    /\ pc[r] = "idle"
    /\ pc' = [pc EXCEPT ![r] = "select"]
    /\ attempt' = [attempt EXCEPT ![r] = 0]
    /\ key_hash' = [key_hash EXCEPT ![r] = "none"]
    /\ response' = [response EXCEPT ![r] = None]
    /\ EnterSelect(World, r)
    /\ UNCHANGED <<now, ticks, strategy, handed>>
    /\ UNCHANGED clientVars

\* smembers("openrouter:active") returns.
ReadActive(r) ==
    /\ pc[r] = "select"
    /\ IF active = {}
       THEN NilPath(World, r)
       ELSE /\ pc' = [pc EXCEPT ![r] = "reading"]
            /\ pending' = [pending EXCEPT ![r] = active]
            /\ healthy_keys' = [healthy_keys EXCEPT ![r] = <<>>]
            /\ SetWorld(Observe(World, r, NoAttempt))
            /\ UNCHANGED <<attempt, key_hash, sel_rot, response>>
    /\ UNCHANGED <<now, ticks, strategy, handed>>
    /\ UNCHANGED clientVars

\* hgetall of one member returns; after the last one select_key runs on.
ReadKey(r, k) ==
    /\ pc[r] = "reading"
    /\ k \in pending[r]
    /\ LET rest == pending[r] \ {k}
           stored == k \in DOMAIN store
           hk == IF stored /\ store[k].complete /\ is_eligible(store[k], now)
                 THEN Append(healthy_keys[r], k)
                 ELSE healthy_keys[r]
       IN IF stored /\ ~store[k].complete
          THEN NilPath(World, r)
          ELSE IF rest # {}
               THEN /\ pending' = [pending EXCEPT ![r] = rest]
                    /\ healthy_keys' = [healthy_keys EXCEPT ![r] = hk]
                    /\ UNCHANGED <<store, active, rotators, cb, rr_index, hist, pc,
                                   attempt, key_hash, sel_rot, response>>
               ELSE FinishSelect(World, r, hk)
    /\ UNCHANGED <<now, ticks, strategy, handed>>
    /\ UNCHANGED clientVars

\* The upstream answers the attempt, or the transport fails.
UpstreamResponds(r, o) ==
    /\ pc[r] = "inflight"
    /\ LET k == key_hash[r]
           att == [hist.att[r] EXCEPT !.kind = o.kind, !.status = o.status]
           failed(rl) == Failed(Observe(report_failure(World, strategy, k, rl, now),
                                        r, [att EXCEPT !.nF = @ + 1]), r)
       IN IF o.kind = "response"
          THEN IF o.status = 429
               THEN Continue(failed(TRUE), r)
               ELSE IF o.status >= 500
               THEN Continue(failed(FALSE), r)
               ELSE /\ IF o.status >= 400
                       THEN SetWorld(Observe(World, r, att))
                       ELSE SetWorld(Observe(report_success(World, strategy, k),
                                             r, [att EXCEPT !.nS = @ + 1]))
                    /\ pc' = [pc EXCEPT ![r] = "done"]
                    /\ response' = [response EXCEPT ![r] = o.status]
                    /\ UNCHANGED <<attempt, sel_rot, pending, healthy_keys>>
          ELSE AfterExcept(failed(FALSE), r)
    /\ UNCHANGED <<now, ticks, strategy, handed, key_hash>>
    /\ UNCHANGED clientVars

\* ------------------------------ one attempt, one await of the handler at a time
\* _make_request returns the upstream response, opened with its body unread,
\* or raises.  A 4xx other than 429 goes to the StreamingResponse with no
\* await in between; every other status is reported first.
ResponseArrives(r, o) ==
    /\ pc[r] = "inflight"
    /\ LET k == key_hash[r]
           att == [hist.att[r] EXCEPT !.kind = o.kind, !.status = o.status]
           W == [Observe(World, r, att) EXCEPT !.hist.open = @ \cup {r}]
       IN IF o.kind = "response"
          THEN /\ SetWorld(W)
               /\ IF o.status >= 400 /\ o.status < 500 /\ o.status # 429
                  THEN /\ pc' = [pc EXCEPT ![r] = "streaming"]
                       /\ response' = [response EXCEPT ![r] = o.status]
                  ELSE /\ pc' = [pc EXCEPT ![r] = "opened"]
                       /\ UNCHANGED response
               /\ UNCHANGED <<attempt, sel_rot, pending, healthy_keys>>
          ELSE AfterExcept(Failed(Observe(report_failure(World, strategy, k, FALSE, now),
                                          r, [att EXCEPT !.nF = @ + 1]), r), r)
    /\ UNCHANGED <<now, ticks, strategy, handed, key_hash>>
    /\ UNCHANGED clientVars

\* report_failure or report_success returns to proxy_request, the response
\* still open.
ReportOutcome(r) ==
    /\ pc[r] = "opened"
    /\ LET k == key_hash[r]
           status == hist.att[r].status IN
       IF status = 429 \/ status >= 500
       THEN /\ SetWorld(Failed(Observe(report_failure(World, strategy, k,
                                                      status = 429, now),
                                       r, [hist.att[r] EXCEPT !.nF = @ + 1]), r))
            /\ pc' = [pc EXCEPT ![r] = "closing"]
            /\ UNCHANGED response
       ELSE /\ SetWorld(Observe(report_success(World, strategy, k),
                                r, [hist.att[r] EXCEPT !.nS = @ + 1]))
            /\ pc' = [pc EXCEPT ![r] = "streaming"]
            /\ response' = [response EXCEPT ![r] = status]
    /\ UNCHANGED <<now, ticks, strategy, handed, key_hash, attempt, sel_rot,
                   pending, healthy_keys>>
    /\ UNCHANGED clientVars

\* response.aclose() after a 429 or 5xx, then "continue".
CloseResponse(r) ==
    /\ pc[r] = "closing"
    /\ Continue([World EXCEPT !.hist.open = @ \ {r}], r)
    /\ UNCHANGED <<now, ticks, strategy, handed, key_hash>>
    /\ UNCHANGED clientVars

\* The StreamingResponse is over (body sent, upstream read failed, or client
\* gone) and its background task response.aclose has run.
StreamEnds(r) ==
    /\ pc[r] = "streaming"
    /\ pc' = [pc EXCEPT ![r] = "done"]
    /\ SetWorld([World EXCEPT !.hist.open = @ \ {r}])
    /\ UNCHANGED <<now, ticks, strategy, handed, key_hash, attempt, sel_rot,
                   pending, healthy_keys, response>>
    /\ UNCHANGED clientVars

\* asyncio.sleep(2 ** attempt) returns.
BackoffDone(r) ==
    /\ pc[r] = "backoff"
    /\ pc' = [pc EXCEPT ![r] = "select"]
    /\ attempt' = [attempt EXCEPT ![r] = attempt[r] + 1]
    /\ EnterSelect(World, r)
    /\ UNCHANGED <<now, ticks, strategy, handed, key_hash, response>>
    /\ UNCHANGED clientVars

\* Variant: the cancellation runs the failure report of "except Exception"
\* before it propagates.
Cancel_reported(r) ==
    /\ pc[r] \in {"select", "reading", "inflight", "backoff", "opened"}
    /\ pc' = [pc EXCEPT ![r] = "cancelled"]
    /\ LeaveSelect(r)
    /\ SetWorld(IF key_hash[r] # "none"
                THEN report_failure(World, strategy, key_hash[r], FALSE, now)
                ELSE World)
    /\ UNCHANGED <<now, ticks, strategy, attempt, key_hash, response, handed>>
    /\ UNCHANGED clientVars

\* CancelledError is raised at the await the request is suspended in.  It is
\* not an Exception, so no except clause of proxy_request handles it.
Cancel(r) ==
    /\ pc[r] \in {"select", "reading", "inflight", "backoff", "opened"}
    /\ pc' = [pc EXCEPT ![r] = "cancelled"]
    /\ LeaveSelect(r)
    /\ UNCHANGED <<now, ticks, store, active, rotators, strategy, cb, rr_index,
                   attempt, key_hash, response, handed, hist>>
    /\ UNCHANGED clientVars

\* ------------------------------------------- clock, admin and maintenance
reqVars == <<pc, attempt, key_hash, sel_rot, pending, healthy_keys, response, handed,
             client_keys, user_keys, cpc, clocal, rate, chist>>

Tick(d) ==
    /\ ticks < MaxTicks
    /\ ticks' = ticks + 1
    /\ now' = now + d
    /\ hist' = [hist EXCEPT !.swept = FALSE]
    /\ UNCHANGED <<store, active, rotators, strategy, cb, rr_index>>
    /\ UNCHANGED reqVars

\* up = FALSE: the hset of the record fails inside hash_set_safely.
AddKey(k, up) ==
    /\ SetWorld(LET S == add_openrouter_key(registry(World), k)
                    st == IF up THEN S.store ELSE store IN
                [World EXCEPT !.store = st, !.active = S.active,
                              !.hist.last_bulk = NoImport,
                              !.hist.unstored =
                                  IF S.result # "nil" /\ k \notin DOMAIN st
                                  THEN @ \cup {k} ELSE @ \ {k}])
    /\ UNCHANGED <<now, ticks, strategy>>
    /\ UNCHANGED reqVars

DeleteKey(k) ==
    /\ k \in DOMAIN store
    /\ SetWorld(LET S == delete_openrouter_key(registry(World), k) IN
                [World EXCEPT !.store = S.store, !.active = S.active,
                              !.hist.last_bulk = NoImport,
                              !.hist.consec[k] = 0,
                              !.hist.consec_x[k] = 0])
    /\ UNCHANGED <<now, ticks, strategy>>
    /\ UNCHANGED reqVars

\* The admin imports a list of plaintexts.
BulkImport(keys) ==
    /\ LET R == bulk_import_openrouter_keys(registry(World), keys, 1,
                                            BulkImportResponse(Len(keys))) IN
       SetWorld([World EXCEPT !.store = R.S.store, !.active = R.S.active,
                              !.hist.last_bulk = [keys |-> keys,
                                                  response |-> R.response,
                                                  before |-> DOMAIN store]])
    /\ UNCHANGED <<now, ticks, strategy>>
    /\ UNCHANGED reqVars

\* A direct call of KeyManager.mark_key_unhealthy.
MarkKeyUnhealthy(k) ==
    /\ k \in DOMAIN store
    /\ store[k].failure_count < MaxFailures
    /\ SetWorld(LET S == mark_key_unhealthy(registry(World), k) IN
                [World EXCEPT !.store = S.store, !.active = S.active,
                              !.hist.last_bulk = NoImport,
                              !.hist.consec[k] = @ + 1,
                              !.hist.consec_x[k] = @ + 1])
    /\ UNCHANGED <<now, ticks, strategy>>
    /\ UNCHANGED reqVars

\* One iteration of KeyRotationManager._cleanup_loop.
CleanupLoop ==
    /\ SetWorld([cleanup_loop(World, now) EXCEPT !.hist.swept = TRUE])
    /\ UNCHANGED <<now, ticks, strategy>>
    /\ UNCHANGED reqVars

\* KeyRotator.reset_circuit_breaker through the admin endpoint.
ResetBreaker(k) ==
    /\ cb[strategy][k] # CircuitBreaker
    /\ SetWorld([get_rotator(World, strategy) EXCEPT
                    !.cb[strategy][k] = CircuitBreaker,
                    !.hist.opened_at[strategy][k] = None])
    /\ UNCHANGED <<now, ticks, strategy>>
    /\ UNCHANGED reqVars

\* ------------------------------------ the rotation engine called directly
\* The calls of the rotation manager's contract (select_key, report_success,
\* report_failure) as concurrent requests issue them: handed[k] counts the
\* selections of k whose outcome has not been reported yet.
Orders(S) == {q \in [1..Cardinality(S) -> S] : Range(q) = S}

\* get_healthy_openrouter_keys when no store write falls between its reads.
get_healthy_openrouter_keys(S, t) ==
    IF \E k \in S.active : k \in DOMAIN S.store /\ ~S.store[k].complete THEN {}
    ELSE {k \in S.active : k \in DOMAIN S.store /\ is_eligible(S.store[k], t)}

\* The last n entries of the sequence q.
LastOf(q, n) == IF Len(q) <= n THEN q ELSE SubSeq(q, Len(q) - n + 1, Len(q))

\* The admin sets KeyRotationManager.current_strategy.
SetStrategy(s) ==
    /\ s # strategy
    /\ strategy' = s
    /\ UNCHANGED <<now, ticks, store, active, rotators, cb, rr_index, hist>>
    /\ UNCHANGED reqVars

\* The methods of one CircuitBreaker object, called directly.
BreakerCall(k, op, b, ok) ==
    /\ cb' = [cb EXCEPT ![strategy][k] = b]
    /\ hist' = [hist EXCEPT !.last_call = [op |-> op, key |-> k,
                                           before |-> cb[strategy][k],
                                           at |-> now, ok |-> ok]]
    /\ UNCHANGED <<now, ticks, store, active, rotators, strategy, rr_index>>
    /\ UNCHANGED reqVars

CanExecute(k) ==
    /\ k \in Keys
    /\ LET r == can_execute(cb[strategy][k], now) IN
       BreakerCall(k, "can_execute", r.b, r.ok)

OnSuccess(k) ==
    /\ k \in Keys
    /\ BreakerCall(k, "on_success", on_success(cb[strategy][k]), TRUE)

OnFailure(k) ==
    /\ cb[strategy][k].failure_count <= MaxFailures
    /\ BreakerCall(k, "on_failure", on_failure(cb[strategy][k], now), TRUE)

OnCallAttempt(k) ==
    /\ cb[strategy][k].half_open_calls <= max_half_open_calls
    /\ BreakerCall(k, "on_call_attempt", on_call_attempt(cb[strategy][k]), TRUE)

rotVars == <<pc, attempt, key_hash, sel_rot, pending, healthy_keys, response,
             client_keys, user_keys, cpc, clocal, rate, chist>>

\* The keys a select_key call may return, read off the records and breakers
\* as they are when the call is made.
Admits(b, t) ==
    \/ b.state = "closed"
    \/ b.state = "open" /\ b.last_failure_time # None
                        /\ t - b.last_failure_time > recovery_timeout
    \/ b.state = "half_open" /\ b.half_open_calls < max_half_open_calls

Candidates(W, s, t) ==
    {k \in W.active \cap DOMAIN W.store :
        /\ W.store[k].is_active
        /\ W.store[k].is_healthy
        /\ (W.store[k].rate_limit_reset = None \/ W.store[k].rate_limit_reset <= t)
        /\ Admits(W.cb[s][k], t)}

SelectKey ==
    /\ LET s == strategy
           W0 == get_rotator(World, s) IN
       \E hk \in Orders(get_healthy_openrouter_keys(registry(World), now)) :
          LET avail == available_keys(W0, s, hk, now)
              W1 == filter_keys(W0, s, hk, now) IN
          IF avail = <<>>
          THEN /\ SetWorld([W1 EXCEPT !.hist.last_sel = "nil",
                                      !.hist.last_cand = Candidates(W0, s, now),
                                      !.hist.last_avail = <<>>,
                                      !.hist.run = <<>>])
               /\ UNCHANGED handed
          ELSE \E c \in 1..Len(avail) :
                 LET sel == select_by_strategy(s, avail, W1.rr[s], c)
                     k == avail[sel.index] IN
                 /\ handed[k] < MaxHanded
                 /\ SetWorld([mark_selected(W1, s, k, sel.rr)
                                 EXCEPT !.hist.last_sel = k,
                                        !.hist.last_cand = Candidates(W0, s, now),
                                        !.hist.last_avail =
                                            IF s = "round_robin" THEN avail ELSE <<>>,
                                        !.hist.run =
                                            IF s # "round_robin" THEN <<>>
                                            ELSE IF avail = hist.last_avail
                                            THEN LastOf(Append(hist.run, k), Len(avail))
                                            ELSE <<k>>])
                 /\ handed' = [handed EXCEPT ![k] = @ + 1]
    /\ UNCHANGED <<now, ticks, strategy>>
    /\ UNCHANGED rotVars

ReportSuccess(k) ==
    /\ handed[k] > 0
    /\ k \in DOMAIN store => store[k].usage_count < MaxUsage
    /\ SetWorld(report_success(World, strategy, k))
    /\ handed' = [handed EXCEPT ![k] = @ - 1]
    /\ UNCHANGED <<now, ticks, strategy>>
    /\ UNCHANGED rotVars

ReportFailure(k, is_rate_limit) ==
    /\ handed[k] > 0
    /\ cb[strategy][k].failure_count < MaxFailures
    /\ hist.consec[k] < MaxFailures
    /\ SetWorld(report_failure(World, strategy, k, is_rate_limit, now))
    /\ handed' = [handed EXCEPT ![k] = @ - 1]
    /\ UNCHANGED <<now, ticks, strategy>>
    /\ UNCHANGED rotVars

\* The request ends without a report: a 4xx answer, or it was cancelled.
Abandon(k) ==
    /\ handed[k] > 0
    /\ handed' = [handed EXCEPT ![k] = @ - 1]
    /\ UNCHANGED <<now, ticks, store, active, rotators, strategy, cb, rr_index, hist>>
    /\ UNCHANGED rotVars


\* ------------------------------------------------- client keys (KeyManager)
\* A record as create_client_key stores it.  complete = FALSE marks a hash
\* without user_id and created_at (written by an update only).
ClientKeyData(u, rl) == [complete |-> TRUE, user_id |-> u, is_active |-> TRUE,
                         usage_count |-> 0, last_used |-> None, rate_limit |-> rl]

\* The fields of an absent hash as key_data.get(...) would default them.
EmptyHash == [complete |-> FALSE, user_id |-> "none", is_active |-> TRUE,
              usage_count |-> 0, last_used |-> None, rate_limit |-> 1000]

\* hset on a client-key hash: the fields written are merged into the hash,
\* which is created when absent.
client_hash(ck, k) == IF k \in DOMAIN ck THEN ck[k] ELSE EmptyHash

\* Variant: a failed read answers a record that parses.
hash_get_all_safely_open(ck, up) ==
    IF up THEN ck ELSE [k \in CKeys |-> ClientKeyData("u1", 1000)]

\* RedisOperations.hash_get_all_safely seen over all keys: the hashes a caller
\* reads; a store that raises (up = FALSE) answers {} for every key.
hash_get_all_safely(ck, up) ==
    IF up THEN ck ELSE [k \in {} |-> EmptyHash]

\* validate_client_key without the check of the active flag.
validate_client_key_any(ck, k) ==
    IF k \notin DOMAIN ck THEN [ok |-> FALSE, data |-> EmptyHash]
    ELSE IF ~ck[k].complete THEN [ok |-> FALSE, data |-> EmptyHash]
    ELSE [ok |-> TRUE, data |-> ck[k]]

\* The reading half of validate_client_key: hgetall, parse, active check.
\* Parsing a hash without created_at raises, and the except clause returns None.
validate_client_key(ck, k) ==
    IF k \notin DOMAIN ck THEN [ok |-> FALSE, data |-> EmptyHash]
    ELSE IF ~ck[k].complete THEN [ok |-> FALSE, data |-> EmptyHash]
    ELSE IF ~ck[k].is_active THEN [ok |-> FALSE, data |-> EmptyHash]
    ELSE [ok |-> TRUE, data |-> ck[k]]

\* _update_client_key_usage: the copy read by the caller is incremented and
\* written back.
update_client_key_usage(ck, k, data, t) ==
    hash_set(ck, k, [client_hash(ck, k) EXCEPT !.last_used = t,
                                               !.usage_count = data.usage_count + 1])

Min(a, b) == IF a < b THEN a ELSE b

\* ClientAuthMiddleware._check_rate_limit with _get_current_usage.
check_rate_limit(data) ==
    LET current_usage == Min(data.usage_count, data.rate_limit - 1) IN
    current_usage < data.rate_limit

\* dispatch without the check of the validation result.
dispatch_unvalidated(header, v, limit_ok) ==
    IF header = "none" THEN "401_missing_api_key"
    ELSE IF ~limit_ok THEN "429_rate_limit_exceeded"
    ELSE "call_next"

\* The answer of ClientAuthMiddleware.dispatch on a path that requires
\* authentication: header is "none" or the fingerprint of the key sent, v the
\* result of validate_client_key, limit_ok that of _check_rate_limit.
dispatch(header, v, limit_ok) ==
    IF header = "none" THEN "401_missing_api_key"
    ELSE IF ~v.ok THEN "401_invalid_api_key"
    ELSE IF ~limit_ok THEN "429_rate_limit_exceeded"
    ELSE "call_next"

Max(a, b) == IF a > b THEN a ELSE b

\* The middlewares main.py adds to the application.
MiddlewareStack == {"CORSMiddleware", "SecurityHeadersMiddleware",
                    "ClientAuthMiddleware", "AdminAuthMiddleware",
                    "CSRFProtectionMiddleware", "SessionTimeoutMiddleware",
                    "SessionMiddleware", "RequestLoggingMiddleware"}

\* Variant: an error of the store refuses the request.
check_redis_rate_limit_closed(R, u, rate_limit, t, up) ==
    IF ~up THEN [ok |-> FALSE, rate |-> R]
    ELSE LET current_minute == t \div 60
             current_count == IF R[u].minute = current_minute
                              THEN R[u].count + 1 ELSE 1
             per_minute_limit == Max(1, rate_limit \div 60)
         IN [ok |-> current_count <= per_minute_limit,
             rate |-> [R EXCEPT ![u] = [minute |-> current_minute,
                                        count |-> current_count]]]

\* RateLimitMiddleware._check_redis_rate_limit on the counters R: the INCR and
\* EXPIRE of rate_limit:<user_id>:<minute> and the comparison; up = FALSE is
\* a store that raises, which the except clause answers with True.
check_redis_rate_limit(R, u, rate_limit, t, up) ==
    IF ~up THEN [ok |-> TRUE, rate |-> R]
    ELSE LET current_minute == t \div 60
             current_count == IF R[u].minute = current_minute
                              THEN R[u].count + 1 ELSE 1
             per_minute_limit == Max(1, rate_limit \div 60)
         IN [ok |-> current_count <= per_minute_limit,
             rate |-> [R EXCEPT ![u] = [minute |-> current_minute,
                                        count |-> current_count]]]

\* fault: the last operation that returned after one of its writes had
\* failed, and whether it reported success (a fingerprint, or True).
NoFault == [op |-> "none", key |-> "none", ok |-> FALSE]

NoLimiter == [user |-> "none", up |-> TRUE, status |-> "none", count |-> 0]

NoDispatch == [header |-> "none", ok |-> FALSE, status |-> "none", barred |-> FALSE,
               stored |-> FALSE, active |-> FALSE, failed |-> "none"]

Idle == [op |-> "idle", key |-> "none", user |-> "none", data |-> EmptyHash,
         barred |-> FALSE, failed |-> "none"]

Returns(p) == cpc' = [cpc EXCEPT ![p] = "idle"] /\ clocal' = [clocal EXCEPT ![p] = Idle]

serverVars == <<store, active, rotators, strategy, cb, rr_index, pc, attempt,
                key_hash, sel_rot, pending, healthy_keys, response, handed, hist,
                ticks, now>>

\* ------------------------- registry operations, one store command at a time
\* The hash a command finds under k: the record, or nothing to merge into.
openrouter_hash(st, k) ==
    IF k \in DOMAIN st THEN st[k] ELSE [OpenRouterKeyData EXCEPT !.complete = FALSE]

regVars == <<now, ticks, rotators, strategy, cb, rr_index, pc, attempt, key_hash,
             sel_rot, pending, healthy_keys, response, handed, hist,
             client_keys, user_keys, rate, chist>>

\* The locals of _cleanup_loop between two runs.
CleanupTask == [op |-> "cleanup_loop", key |-> "none", due |-> {}]

\* mark_key_unhealthy: the hgetall.
MarkUnhealthyRead(p, k) ==
    /\ cpc[p] = "idle"
    /\ k \in DOMAIN store
    /\ store[k].failure_count < MaxFailures
    /\ cpc' = [cpc EXCEPT ![p] = "mark_hset"]
    /\ clocal' = [clocal EXCEPT ![p] =
                     [op |-> "mark_key_unhealthy", key |-> k,
                      failure_count |-> store[k].failure_count + 1]]
    /\ UNCHANGED <<store, active, regVars>>

\* mark_key_unhealthy: the hset of failure_count and is_healthy.
MarkUnhealthyHset(p) ==
    /\ cpc[p] = "mark_hset"
    /\ LET k == clocal[p].key
           n == clocal[p].failure_count IN
       /\ store' = hash_set(store, k,
                       [openrouter_hash(store, k) EXCEPT
                           !.failure_count = n,
                           !.is_healthy = ~(n >= disable_threshold)])
       /\ IF n >= disable_threshold
          THEN /\ cpc' = [cpc EXCEPT ![p] = "mark_srem"]
               /\ UNCHANGED clocal
          ELSE Returns(p)
    /\ UNCHANGED <<active, regVars>>

\* mark_key_unhealthy: the srem that follows the hset at the threshold.
MarkUnhealthySrem(p) ==
    /\ cpc[p] = "mark_srem"
    /\ active' = active \ {clocal[p].key}
    /\ Returns(p)
    /\ UNCHANGED <<store, regVars>>

\* A direct call of KeyManager.mark_key_rate_limited (one hset).
MarkKeyRateLimited(k) ==
    /\ k \in DOMAIN store
    /\ LET S == mark_key_rate_limited(registry(World), k, now + rate_limit_seconds) IN
       /\ S.store # store
       /\ store' = S.store
    /\ UNCHANGED <<active, cpc, clocal, regVars>>

\* A direct call of KeyManager.update_key_usage.
UpdateKeyUsage(k) ==
    /\ k \in DOMAIN store
    /\ store[k].usage_count < MaxUsage
    /\ store' = update_key_usage(registry(World), k).store
    /\ UNCHANGED <<active, cpc, clocal, regVars>>

\* cleanup_expired_rate_limits: get_openrouter_keys and the test of each key.
CleanupRead(p) ==
    /\ cpc[p] \in {"idle", "sleeping"}
    /\ cpc[p] = "sleeping" => rotators # {}
    /\ LET S == registry(World)
           due == {k \in get_openrouter_keys(S) :
                     /\ store[k].rate_limit_reset # None
                     /\ store[k].rate_limit_reset < now
                     /\ ~store[k].is_healthy} IN
       /\ due # {}
       /\ cpc' = [cpc EXCEPT ![p] = "cleanup_hset"]
       /\ clocal' = [clocal EXCEPT ![p] =
                        [op |-> IF cpc[p] = "sleeping" THEN "cleanup_loop"
                                                        ELSE "cleanup",
                         key |-> "none", due |-> due]]
    /\ UNCHANGED <<store, active, regVars>>

\* cleanup_expired_rate_limits: the hset of the next key to restore.
CleanupHset(p) ==
    /\ cpc[p] = "cleanup_hset"
    /\ \E k \in clocal[p].due :
         /\ store' = hash_set(store, k,
                         [openrouter_hash(store, k) EXCEPT
                             !.is_healthy = TRUE,
                             !.rate_limit_reset = None,
                             !.failure_count = 0])
         /\ clocal' = [clocal EXCEPT ![p].key = k]
    /\ cpc' = [cpc EXCEPT ![p] = "cleanup_sadd"]
    /\ UNCHANGED <<active, regVars>>

\* cleanup_expired_rate_limits: the sadd of that key, then the next key.
CleanupSadd(p) ==
    /\ cpc[p] = "cleanup_sadd"
    /\ LET k == clocal[p].key
           rest == clocal[p].due \ {k} IN
       /\ active' = active \cup {k}
       /\ IF rest # {}
          THEN /\ cpc' = [cpc EXCEPT ![p] = "cleanup_hset"]
               /\ clocal' = [clocal EXCEPT ![p].key = "none", ![p].due = rest]
          ELSE IF clocal[p].op = "cleanup_loop"
          THEN /\ cpc' = [cpc EXCEPT ![p] = "sleeping"]
               /\ clocal' = [clocal EXCEPT ![p] = CleanupTask]
          ELSE Returns(p)
    /\ UNCHANGED <<store, regVars>>

\* start_background_tasks creates the task p unless _cleanup_task is set.
start_background_tasks(p) == \A q \in Procs : cpc[q] = "idle"

\* The task starts in the sleep of _cleanup_loop.
StartBackgroundTasks(p) ==
    /\ start_background_tasks(p)
    /\ cpc' = [cpc EXCEPT ![p] = "sleeping"]
    /\ clocal' = [clocal EXCEPT ![p] = CleanupTask]
    /\ UNCHANGED <<store, active, regVars>>

\* stop_background_tasks: the task is cancelled at the await it is suspended
\* in, the CancelledError ends _cleanup_loop, and stop returns.
StopBackgroundTasks ==
    /\ \E p \in Procs : cpc[p] # "idle"
    /\ cpc' = [p \in Procs |-> "idle"]
    /\ clocal' = [p \in Procs |-> Idle]
    /\ UNCHANGED <<store, active, regVars>>

\* A request on a proxy path arrives: header check and the hgetall of
\* validate_client_key.
DispatchStart(p, h, up) ==
    /\ cpc[p] = "idle"
    /\ h \in CKeys => chist.nvalid[h] < MaxValidations
    /\ \A u \in Users : chist.passed[u].n < MaxValidations
    /\ LET v == IF h = "none" THEN [ok |-> FALSE, data |-> EmptyHash]
                ELSE validate_client_key(hash_get_all_safely(client_keys, up), h)
           seen == [header |-> h, ok |-> v.ok, status |-> dispatch(h, v, TRUE),
                    barred |-> IF h = "none" THEN FALSE ELSE chist.barred[h],
                    stored |-> h \in DOMAIN client_keys,
                    active |-> h \in DOMAIN client_keys /\ client_keys[h].is_active,
                    failed |-> IF h # "none" /\ ~up THEN "read" ELSE "none"]
       IN IF v.ok
          THEN /\ cpc' = [cpc EXCEPT ![p] = "validated"]
               /\ clocal' = [clocal EXCEPT ![p] = [op |-> "dispatch", key |-> h,
                                                   user |-> v.data.user_id,
                                                   data |-> v.data,
                                                   barred |-> seen.barred,
                                                   failed |-> seen.failed]]
               /\ UNCHANGED chist
          ELSE /\ Returns(p)
               /\ chist' = [chist EXCEPT !.last = seen]
    /\ UNCHANGED <<client_keys, user_keys>>
    /\ UNCHANGED <<serverVars, rate>>

\* The hset of _update_client_key_usage returns (written, or refused by a
\* store that raises, which hash_set_safely only logs), validate_client_key
\* returns the record, the rate limit is checked and the request goes on.
DispatchFinish(p, up) ==
    /\ cpc[p] = "validated"
    /\ LET k == clocal[p].key
           u == clocal[p].user
           data == [clocal[p].data EXCEPT !.usage_count = @ + 1, !.last_used = now]
           auth == dispatch(k, [ok |-> TRUE, data |-> data], check_rate_limit(data))
           minute == now \div 60
           limited == auth = "call_next" /\ "RateLimitMiddleware" \in MiddlewareStack
           c == check_redis_rate_limit(rate, u, data.rate_limit, now, TRUE)
           status == IF limited /\ ~c.ok THEN "429_rate_limit_exceeded" ELSE auth
           n == IF chist.passed[u].minute = minute THEN chist.passed[u].n ELSE 0
       IN /\ client_keys' = IF up
                             THEN update_client_key_usage(client_keys, k, clocal[p].data, now)
                             ELSE client_keys
          /\ rate' = IF limited THEN c.rate ELSE rate
          /\ chist' = [chist EXCEPT
                 !.last = [header |-> k, ok |-> TRUE, status |-> status,
                           barred |-> clocal[p].barred,
                           stored |-> TRUE, active |-> TRUE,
                           failed |-> IF clocal[p].failed # "none" THEN clocal[p].failed
                                      ELSE IF up THEN "none" ELSE "write"],
                 !.nvalid[k] = @ + 1,
                 !.passed[u] = IF status = "call_next"
                               THEN [minute |-> minute, n |-> n + 1,
                                     limit |-> data.rate_limit]
                               ELSE @]
    /\ Returns(p)
    /\ UNCHANGED user_keys
    /\ UNCHANGED serverVars

\* RateLimitMiddleware.dispatch, constructed with a redis client, on a request
\* that carries the client data of user u with rate limit rl.
RateLimitDispatch(u, rl, up) ==
    /\ rate[u].count <= MaxValidations
    /\ LET c == check_redis_rate_limit(rate, u, rl, now, up) IN
       /\ rate' = c.rate
       /\ chist' = [chist EXCEPT !.limiter =
                        [user |-> u, up |-> up,
                         status |-> IF c.ok THEN "call_next"
                                    ELSE "429_rate_limit_exceeded",
                         count |-> rate[u].count]]
    /\ UNCHANGED <<client_keys, user_keys, cpc, clocal>>
    /\ UNCHANGED serverVars

\* deactivate_client_key: the existence check, then the hset.
DeactivateRead(p, k) ==
    /\ cpc[p] = "idle"
    /\ k \in DOMAIN client_keys
    /\ cpc' = [cpc EXCEPT ![p] = "deactivating"]
    /\ clocal' = [clocal EXCEPT ![p] = [Idle EXCEPT !.op = "deactivate", !.key = k]]
    /\ UNCHANGED <<client_keys, user_keys, chist>>
    /\ UNCHANGED <<serverVars, rate>>

DeactivateWrite(p, up) ==
    /\ cpc[p] = "deactivating"
    /\ LET k == clocal[p].key IN
       /\ client_keys' = hash_set_safely(client_keys, k,
                             [client_hash(client_keys, k) EXCEPT !.is_active = FALSE], up)
       /\ chist' = IF up THEN [chist EXCEPT !.barred[k] = TRUE]
                   ELSE [chist EXCEPT !.fault = [op |-> "deactivate", key |-> k,
                                                 ok |-> TRUE]]
    /\ Returns(p)
    /\ UNCHANGED user_keys
    /\ UNCHANGED <<serverVars, rate>>

\* reactivate_client_key: the existence check, then the hset.
ReactivateRead(p, k) ==
    /\ cpc[p] = "idle"
    /\ k \in DOMAIN client_keys
    /\ cpc' = [cpc EXCEPT ![p] = "reactivating"]
    /\ clocal' = [clocal EXCEPT ![p] = [Idle EXCEPT !.op = "reactivate", !.key = k]]
    /\ chist' = [chist EXCEPT !.barred[k] = FALSE]
    /\ UNCHANGED <<client_keys, user_keys>>
    /\ UNCHANGED <<serverVars, rate>>

ReactivateWrite(p, up) ==
    /\ cpc[p] = "reactivating"
    /\ LET k == clocal[p].key IN
       /\ client_keys' = hash_set_safely(client_keys, k,
                             [client_hash(client_keys, k) EXCEPT !.is_active = TRUE], up)
       /\ chist' = IF up THEN [chist EXCEPT !.barred[k] = FALSE]
                   ELSE [chist EXCEPT !.fault = [op |-> "reactivate", key |-> k,
                                                 ok |-> TRUE]]
    /\ Returns(p)
    /\ UNCHANGED user_keys
    /\ UNCHANGED <<serverVars, rate>>

\* delete_client_key: the hgetall (absent, or no user_id: return False), the
\* delete of the hash, the srem from the user's set.
DeleteRead(p, k) ==
    /\ cpc[p] = "idle"
    /\ k \in DOMAIN client_keys
    /\ client_keys[k].user_id # "none"
    /\ cpc' = [cpc EXCEPT ![p] = "deleting"]
    /\ clocal' = [clocal EXCEPT ![p] = [Idle EXCEPT !.op = "delete", !.key = k,
                                                   !.user = client_keys[k].user_id]]
    /\ UNCHANGED <<client_keys, user_keys, chist>>
    /\ UNCHANGED <<serverVars, rate>>

DeleteRecord(p) ==
    /\ cpc[p] = "deleting"
    /\ LET k == clocal[p].key IN
       /\ client_keys' = [x \in DOMAIN client_keys \ {k} |-> client_keys[x]]
       /\ chist' = [chist EXCEPT !.nvalid[k] = 0]
    /\ cpc' = [cpc EXCEPT ![p] = "unindexing"]
    /\ UNCHANGED <<clocal, user_keys>>
    /\ UNCHANGED <<serverVars, rate>>

DeleteIndex(p) ==
    /\ cpc[p] = "unindexing"
    /\ LET k == clocal[p].key
           u == clocal[p].user IN
       /\ user_keys' = [user_keys EXCEPT ![u] = @ \ {k}]
       /\ chist' = [chist EXCEPT !.deleted[k] = TRUE]
    /\ Returns(p)
    /\ UNCHANGED client_keys
    /\ UNCHANGED <<serverVars, rate>>

\* create_client_key: k is the fingerprint of the key generate_api_key drew.
\* The hset writes every field of the record; then the sadd.
CreateWrite(p, u, rl, k, up) ==
    /\ cpc[p] = "idle"
    /\ client_keys' = hash_set_safely(client_keys, k, ClientKeyData(u, rl), up)
    /\ cpc' = [cpc EXCEPT ![p] = "indexing"]
    /\ clocal' = [clocal EXCEPT ![p] = [Idle EXCEPT !.op = "create", !.key = k,
                                                   !.user = u,
                                                   !.failed = IF up THEN "none"
                                                              ELSE "write"]]
    /\ chist' = IF up
                THEN [chist EXCEPT !.barred[k] = FALSE, !.deleted[k] = FALSE,
                                   !.nvalid[k] = 0,
                                   !.issued = @ \cup {k},
                                   !.reissued = @ \cup ({k} \cap chist.issued)]
                ELSE chist
    /\ UNCHANGED user_keys
    /\ UNCHANGED <<serverVars, rate>>

CreateIndex(p) ==
    /\ cpc[p] = "indexing"
    /\ user_keys' = [user_keys EXCEPT ![clocal[p].user] = @ \cup {clocal[p].key}]
    /\ chist' = IF clocal[p].failed = "none"
                THEN [chist EXCEPT !.deleted[clocal[p].key] = FALSE]
                ELSE [chist EXCEPT !.fault = [op |-> "create", key |-> clocal[p].key,
                                              ok |-> TRUE]]
    /\ Returns(p)
    /\ UNCHANGED client_keys
    /\ UNCHANGED <<serverVars, rate>>

\* ------------------------------------------------------------ specification
Init ==
    /\ now = 0
    /\ ticks = 0
    /\ store = [k \in {} |-> OpenRouterKeyData]
    /\ active = {}
    /\ rotators = {}
    /\ strategy = DefaultStrategy
    /\ cb = [s \in Strategies |-> [k \in Keys |-> CircuitBreaker]]
    /\ rr_index = [s \in Strategies |-> 0]
    /\ pc = [r \in Reqs |-> "idle"]
    /\ attempt = [r \in Reqs |-> 0]
    /\ key_hash = [r \in Reqs |-> "none"]
    /\ sel_rot = [r \in Reqs |-> DefaultStrategy]
    /\ pending = [r \in Reqs |-> {}]
    /\ healthy_keys = [r \in Reqs |-> <<>>]
    /\ response = [r \in Reqs |-> None]
    /\ handed = [k \in Keys |-> 0]
    /\ hist = [opened_at |-> [s \in Strategies |-> [k \in Keys |-> None]],
               probes |-> [s \in Strategies |-> [k \in Keys |-> 0]],
               consec |-> [k \in Keys |-> 0],
               consec_x |-> [k \in Keys |-> 0],
               last_sel |-> "none",
               last_bulk |-> NoImport,
               unstored |-> {},
               last_cand |-> {},
               last_avail |-> <<>>,
               run |-> <<>>,
               last_call |-> NoCall,
               open |-> {},
               swept |-> FALSE,
               calls |-> [r \in Reqs |-> 0],
               fails |-> [r \in Reqs |-> 0],
               att |-> [r \in Reqs |-> NoAttempt]]
    /\ client_keys = [k \in {} |-> EmptyHash]
    /\ user_keys = [u \in Users |-> {}]
    /\ cpc = [p \in Procs |-> "idle"]
    /\ clocal = [p \in Procs |-> Idle]
    /\ rate = [u \in Users |-> [minute |-> 0, count |-> 0]]
    /\ chist = [last |-> NoDispatch,
                barred |-> [k \in CKeys |-> FALSE],
                deleted |-> [k \in CKeys |-> FALSE],
                nvalid |-> [k \in CKeys |-> 0],
                issued |-> {},
                reissued |-> {},
                limiter |-> NoLimiter,
                fault |-> NoFault,
                passed |-> [u \in Users |-> [minute |-> 0, n |-> 0, limit |-> 0]]]

\* One client request at a time over two upstream keys, with the clock, the
\* admin operations on the registry and the maintenance task.
Next ==
    \/ \E r \in Reqs : StartRequest(r)
    \/ \E r \in Reqs : ReadActive(r)
    \/ \E r \in Reqs, k \in Keys : ReadKey(r, k)
    \/ \E r \in Reqs, o \in Outcomes : UpstreamResponds(r, o)
    \/ \E r \in Reqs : BackoffDone(r)
    \/ \E r \in Reqs : Cancel(r)
    \/ \E d \in TickSteps : Tick(d)
    \/ \E k \in Keys : AddKey(k, TRUE)
    \/ \E k \in Keys : DeleteKey(k)
    \/ CleanupLoop

Spec == Init /\ [][Next]_vars

\* The rotation engine under concurrent callers, on one upstream key.
NextRotation ==
    \/ SelectKey
    \/ \E k \in OneKey : ReportSuccess(k)
    \/ \E k \in OneKey, rl \in BOOLEAN : ReportFailure(k, rl)
    \/ \E k \in OneKey : Abandon(k)
    \/ \E d \in TickSteps : Tick(d)
    \/ \E k \in OneKey : AddKey(k, TRUE)
    \/ \E k \in OneKey : DeleteKey(k)
    \/ CleanupLoop
    \/ \E k \in OneKey : ResetBreaker(k)

SpecRotation == Init /\ [][NextRotation]_vars

Lists(n) == UNION {[1..m -> Plaintexts] : m \in 0..n}

\* The registry of upstream keys under the admin operations.
NextImport ==
    \/ \E keys \in Lists(MaxBulk) : BulkImport(keys)
    \/ \E k \in Keys : AddKey(k, TRUE)
    \/ \E k \in Keys : DeleteKey(k)
    \/ \E k \in OneKey : MarkKeyUnhealthy(k)

SpecImport == Init /\ [][NextImport]_vars

\* The round-robin rotator over two keys, with no failures reported.
NextRoundRobin ==
    \/ \E s \in Strategies : SetStrategy(s)
    \/ SelectKey
    \/ \E k \in Keys : Abandon(k)
    \/ \E k \in Keys : AddKey(k, TRUE)
    \/ \E k \in Keys : DeleteKey(k)

SpecRoundRobin == Init /\ [][NextRoundRobin]_vars

\* One key under a rotation strategy that the admin switches.
NextSwitch ==
    \/ \E s \in Strategies : SetStrategy(s)
    \/ SelectKey
    \/ \E k \in OneKey : ReportSuccess(k)
    \/ \E k \in OneKey : ReportFailure(k, FALSE)
    \/ \E k \in OneKey : AddKey(k, TRUE)

SpecSwitch == Init /\ [][NextSwitch]_vars

\* One circuit breaker under every order of its method calls.
NextBreaker ==
    \/ \E k \in OneKey : CanExecute(k)
    \/ \E k \in OneKey : OnSuccess(k)
    \/ \E k \in OneKey : OnFailure(k)
    \/ \E k \in OneKey : OnCallAttempt(k)
    \/ \E d \in TickSteps : Tick(d)

SpecBreaker == Init /\ [][NextBreaker]_vars

\* The registry of one upstream key under concurrent health reports and the
\* maintenance task.
NextRegistry ==
    \/ \E p \in Procs, k \in OneKey : MarkUnhealthyRead(p, k)
    \/ \E p \in Procs : MarkUnhealthyHset(p)
    \/ \E p \in Procs : MarkUnhealthySrem(p)
    \/ \E k \in OneKey : MarkKeyRateLimited(k)
    \/ \E k \in OneKey : UpdateKeyUsage(k)
    \/ \E p \in Procs : CleanupRead(p)
    \/ \E p \in Procs : CleanupHset(p)
    \/ \E p \in Procs : CleanupSadd(p)
    \/ \E k \in OneKey : AddKey(k, TRUE)
    \/ \E k \in OneKey : DeleteKey(k)
    \/ \E d \in TickSteps : Tick(d)

SpecRegistry == Init /\ [][NextRegistry]_vars

\* One proxy request with the upstream response as an object that is opened
\* and closed.
NextStream ==
    \/ \E r \in Reqs : StartRequest(r)
    \/ \E r \in Reqs : ReadActive(r)
    \/ \E r \in Reqs, k \in Keys : ReadKey(r, k)
    \/ \E r \in Reqs, o \in Outcomes : ResponseArrives(r, o)
    \/ \E r \in Reqs : ReportOutcome(r)
    \/ \E r \in Reqs : CloseResponse(r)
    \/ \E r \in Reqs : StreamEnds(r)
    \/ \E r \in Reqs : BackoffDone(r)
    \/ \E r \in Reqs : Cancel(r)
    \/ \E k \in Keys : AddKey(k, TRUE)

SpecStream == Init /\ [][NextStream]_vars

\* The maintenance task between start and stop, on one upstream key.
NextMaintenance ==
    \/ \E p \in Procs : StartBackgroundTasks(p)
    \/ StopBackgroundTasks
    \/ \E p \in Procs : CleanupRead(p)
    \/ \E p \in Procs : CleanupHset(p)
    \/ \E p \in Procs : CleanupSadd(p)
    \/ SelectKey
    \/ \E k \in OneKey : Abandon(k)
    \/ \E k \in OneKey : MarkKeyRateLimited(k)
    \/ \E k \in OneKey : MarkKeyUnhealthy(k)
    \/ \E k \in OneKey : AddKey(k, TRUE)
    \/ \E d \in TickSteps : Tick(d)

SpecMaintenance == Init /\ [][NextMaintenance]_vars

\* One caller at a time on the client-key side, with a state store that may
\* fail at any call.
NextOutage ==
    \/ \E p \in OneProc, h \in CKeys \cup {"none"}, up \in BOOLEAN : DispatchStart(p, h, up)
    \/ \E p \in OneProc, up \in BOOLEAN : DispatchFinish(p, up)
    \/ \E p \in OneProc, u \in Users, rl \in RateLimits, k \in CKeys, up \in BOOLEAN :
          CreateWrite(p, u, rl, k, up)
    \/ \E p \in OneProc : CreateIndex(p)
    \/ \E p \in OneProc, k \in CKeys : DeactivateRead(p, k)
    \/ \E p \in OneProc, up \in BOOLEAN : DeactivateWrite(p, up)
    \/ \E p \in OneProc, k \in CKeys : ReactivateRead(p, k)
    \/ \E p \in OneProc, up \in BOOLEAN : ReactivateWrite(p, up)
    \/ \E k \in OneKey, up \in BOOLEAN : AddKey(k, up)

SpecOutage == Init /\ [][NextOutage]_vars

\* RateLimitMiddleware on its own, with the clock and a store that may fail.
NextLimiter ==
    \/ \E u \in Users, rl \in RateLimits, up \in BOOLEAN : RateLimitDispatch(u, rl, up)
    \/ \E d \in TickSteps : Tick(d)

SpecLimiter == Init /\ [][NextLimiter]_vars

\* The client-key side: concurrent callers of the authentication middleware
\* and of the admin operations on client keys.
NextClient ==
    \/ \E p \in Procs, h \in CKeys \cup {"none"} : DispatchStart(p, h, TRUE)
    \/ \E p \in Procs : DispatchFinish(p, TRUE)
    \/ \E p \in Procs, k \in CKeys : DeactivateRead(p, k)
    \/ \E p \in Procs : DeactivateWrite(p, TRUE)
    \/ \E p \in Procs, k \in CKeys : ReactivateRead(p, k)
    \/ \E p \in Procs : ReactivateWrite(p, TRUE)
    \/ \E p \in Procs, k \in CKeys : DeleteRead(p, k)
    \/ \E p \in Procs : DeleteRecord(p)
    \/ \E p \in Procs : DeleteIndex(p)
    \/ \E p \in Procs, u \in Users, rl \in RateLimits, k \in CKeys :
          CreateWrite(p, u, rl, k, TRUE)
    \/ \E p \in Procs : CreateIndex(p)

SpecClient == Init /\ [][NextClient]_vars

\* ------------------------------------------------------------ properties
Listed == get_healthy_openrouter_keys(registry(World), now)

Retryable(st) == st = 429 \/ st >= 500

\* C1: no client request causes more than max_retries upstream calls,
\* whatever the upstream answers.
RetryBound == \A r \in Reqs : hist.calls[r] <= max_retries

\* A request answered by its third upstream call.
RetryBoundReached ==
    \E r \in Reqs : hist.calls[r] = max_retries /\ pc[r] = "done" /\ response[r] = 200

\* C2: an attempt whose select_key returned None ends the request at once
\* with the answer 503: no backoff, no further attempt.
NilSelectionAnswers503 ==
    \A r \in Reqs : hist.att[r].sel = "nil" => pc[r] = "done" /\ response[r] = 503

\* C3: an attempt that got an upstream response has made exactly one report
\* for its key, report_failure on 429 and 5xx and report_success otherwise,
\* and a 4xx other than 429 is the answer of the request.
OneReportPerResponse ==
    \A r \in Reqs :
        LET a == hist.att[r] IN
        a.kind = "response" =>
            /\ a.nS + a.nF = 1
            /\ a.nF = 1 <=> Retryable(a.status)
            /\ (a.status >= 400 /\ ~Retryable(a.status))
                  => pc[r] = "done" /\ response[r] = a.status

CancelReportsNothing ==
    [][\A r \in Reqs :
          /\ (pc[r] # "cancelled" /\ pc'[r] = "cancelled")
                => cb' = cb /\ store' = store /\ active' = active /\ hist' = hist
          /\ pc[r] = "cancelled"
                => pc'[r] = "cancelled" /\ hist'.calls[r] = hist.calls[r]]_vars

\* A request cancelled with a call in flight, after an earlier failed attempt.
CancelledInFlight ==
    \E r \in Reqs : /\ pc[r] = "cancelled"
                    /\ hist.att[r].sel \in Keys
                    /\ hist.att[r].kind = "none"
                    /\ hist.fails[r] >= 1

\* C6: while less than recovery_timeout has passed since a breaker entered
\* open, the breaker is open and can_execute returns false.
BreakerStaysOpen ==
    \A s \in Strategies, k \in Keys :
        (hist.opened_at[s][k] # None /\ now - hist.opened_at[s][k] < recovery_timeout)
            => cb[s][k].state = "open" /\ ~admitted(World, s, k, now)

\* An eligible key refused by select_key 30 seconds after its breaker opened.
RefusedWhileOpen ==
    \E k \in Keys : /\ hist.opened_at[strategy][k] # None
                    /\ now - hist.opened_at[strategy][k] = 30
                    /\ k \in Listed
                    /\ hist.last_sel = "nil"

\* C7: a half-open key is selected at most max_half_open_calls times with no
\* report in between, and is refused after that.
ProbeBound ==
    \A s \in Strategies, k \in Keys :
        /\ hist.probes[s][k] <= max_half_open_calls
        /\ (cb[s][k].state = "half_open" /\ hist.probes[s][k] = max_half_open_calls)
              => ~admitted(World, s, k, now)

\* Three probes handed out, the key still eligible, the next select refused.
ProbesExhausted ==
    \E k \in Keys : /\ cb[strategy][k].state = "half_open"
                    /\ hist.probes[strategy][k] = max_half_open_calls
                    /\ k \in Listed
                    /\ hist.last_sel = "nil"

Disabled(k, st, act) == k \in DOMAIN st /\ ~st[k].is_healthy /\ k \notin act

ListedAreEligible ==
    \A k \in Listed :
        /\ k \in DOMAIN store
        /\ store[k].is_active
        /\ store[k].is_healthy
        /\ store[k].rate_limit_reset = None \/ store[k].rate_limit_reset <= now

\* A key listed again once its rate limit has run out.
ListedAfterRateLimit ==
    \E k \in Listed : store[k].rate_limit_reset # None /\ hist.last_sel = k

Due(k) == /\ k \in DOMAIN store
          /\ store[k].complete
          /\ store[k].rate_limit_reset # None
          /\ store[k].rate_limit_reset < now
          /\ ~store[k].is_healthy

\* C10: a run of the maintenance task (the first since the clock moved)
\* restores every stored key whose rate_limit_reset is in the past and whose
\* healthy flag is false.
MaintenanceRestores ==
    [][(~hist.swept /\ hist'.swept) =>
          \A k \in Keys :
              Due(k) => /\ store'[k].rate_limit_reset = None
                        /\ store'[k].is_healthy
                        /\ store'[k].failure_count = 0
                        /\ k \in active'
                        /\ k \in get_healthy_openrouter_keys(
                                    [store |-> store', active |-> active'], now')]_vars

\* C11: select_key returns None exactly when no key is both eligible in the
\* registry and admitted by its breaker, and otherwise returns one of those
\* keys.
SelectReturnsCandidate ==
    /\ hist.last_sel = "nil" => hist.last_cand = {}
    /\ hist.last_sel \in Keys => hist.last_sel \in hist.last_cand
    /\ (hist.last_sel # "none" /\ hist.last_cand = {}) => hist.last_sel = "nil"

\* A key returned as a probe while another probe of it is outstanding.
SelectedAsProbe ==
    \E k \in Keys : /\ hist.last_sel = k
                    /\ cb[strategy][k].state = "half_open"
                    /\ hist.probes[strategy][k] = 2

MinuteLimit ==
    \A u \in Users :
        chist.passed[u].n <= Max(1, chist.passed[u].limit \div 60)

\* C14: from the return of deactivate_client_key to the next reactivation of
\* the key no validation of it succeeds: the record stays inactive, a
\* validation begun in that period answers None and writes neither
\* usage_count nor last_used, and the reactivation changes the active flag
\* only, so that the key validates again with its user, rate limit and usage.
Deactivated(k) == chist.barred[k] /\ k \in DOMAIN client_keys

InactiveStaysOut ==
    /\ \A k \in CKeys : Deactivated(k) => ~validate_client_key(client_keys, k).ok
    /\ \A p \in Procs : cpc[p] = "validated" => ~clocal[p].barred
    /\ chist.last.barred => ~chist.last.ok /\ chist.last.status = "401_invalid_api_key"

UsageWrittenBy(k) ==
    \E p \in Procs :
        \/ cpc[p] = "validated" /\ cpc'[p] = "idle" /\ clocal[p].key = k /\ ~clocal[p].barred
        \/ cpc[p] = "idle" /\ cpc'[p] = "indexing"

ReactivationPreserves ==
    \A p \in Procs :
        cpc[p] = "reactivating" /\ cpc'[p] = "idle" /\ clocal[p].key \in DOMAIN client_keys
        => LET k == clocal[p].key IN
           /\ client_keys' = [client_keys EXCEPT ![k].is_active = TRUE]
           /\ client_keys[k].complete
              => validate_client_key(client_keys', k) = [ok |-> TRUE, data |-> client_keys'[k]]

InactiveNeverAuthenticates ==
    /\ []InactiveStaysOut
    /\ [][/\ \A k \in DOMAIN client_keys \cap DOMAIN client_keys' :
               \/ client_keys'[k].usage_count # client_keys[k].usage_count
               \/ client_keys'[k].last_used # client_keys[k].last_used
               => UsageWrittenBy(k)
          /\ ReactivationPreserves]_vars

RefusedWhileDeactivated ==
    /\ chist.last.barred
    /\ chist.last.status = "401_invalid_api_key"
    /\ chist.last.header \in DOMAIN client_keys
    /\ client_keys[chist.last.header].usage_count > 0
    /\ \A p \in Procs : cpc[p] = "idle"

\* No fingerprint has been drawn twice by generate_api_key.
FreshKeys == chist.reissued = {}

\* C15: the stored usage_count of a client key never decreases, whatever the
\* interleaving of validate_client_key, deactivate_client_key and
\* reactivate_client_key calls.
UsageMonotonic ==
    [][FreshKeys' =>
         \A k \in DOMAIN client_keys \cap DOMAIN client_keys' :
             client_keys'[k].usage_count >= client_keys[k].usage_count]_vars

\* C16: after n successful validations of a client key its stored usage_count
\* is n.
UsageCountsValidations ==
    \A k \in DOMAIN client_keys :
        FreshKeys /\ client_keys[k].complete
        => client_keys[k].usage_count = chist.nvalid[k]

\* C17: once delete_client_key has returned True the record of the key does
\* not exist and its fingerprint is in no user's set, whatever validate,
\* deactivate and reactivate calls run at the same time.
DeletedIsGone ==
    \A k \in CKeys :
        FreshKeys /\ chist.deleted[k]
        => k \notin DOMAIN client_keys /\ \A u \in Users : k \notin user_keys[u]

\* C18: create_client_key stores a record only under a fingerprint that has
\* none: when the fingerprint drawn is already stored the call fails, and the
\* stored record and the user sets stay as they are.
IssueRefusesStoredKey ==
    [][\A p \in Procs :
          cpc[p] = "idle" /\ cpc'[p] = "indexing"
          => /\ clocal'[p].key \notin DOMAIN client_keys
             /\ \A k \in DOMAIN client_keys : client_keys'[k] = client_keys[k]]_vars

\* C19: add_openrouter_key of a fingerprint that has a record answers None and
\* leaves the records and openrouter:active as they are; of a fingerprint
\* without a record it answers the fingerprint, stores a record that is active
\* and healthy with failure_count 0, usage_count 0 and no rate_limit_reset,
\* and adds the fingerprint to openrouter:active.
FreshRecord(rec) ==
    /\ rec.is_active
    /\ rec.is_healthy
    /\ rec.failure_count = 0
    /\ rec.usage_count = 0
    /\ rec.rate_limit_reset = None

AddAnswer(k) ==
    LET A == add_openrouter_key(registry(World), k) IN
    IF k \in DOMAIN store
    THEN A.result = "nil" /\ A.store = store /\ A.active = active
    ELSE /\ A.result = k
         /\ DOMAIN A.store = DOMAIN store \cup {k}
         /\ FreshRecord(A.store[k])
         /\ \A x \in DOMAIN store : A.store[x] = store[x]
         /\ A.active = active \cup {k}

AddStep ==
    /\ \A k \in DOMAIN store' \ DOMAIN store : FreshRecord(store'[k]) /\ k \in active'
    /\ hist'.last_bulk # NoImport
       => /\ \A k \in DOMAIN store : k \in DOMAIN store' /\ store'[k] = store[k]
          /\ active' \ (DOMAIN store' \ DOMAIN store) = active

BulkImportAccounts ==
    LET b == hist.last_bulk
        r == b.response
        n == Len(b.keys)
        valid == {i \in 1..n : OpenRouterKeyCreate(b.keys[i]) # "invalid"}
    IN
    /\ r.total_keys = n
    /\ r.successful_imports + r.failed_imports = r.total_keys
    /\ r.successful_imports = Len(r.imported_hashes)
    /\ r.failed_imports = Len(r.errors)
    /\ \A i \in valid : hash_api_key(OpenRouterKeyCreate(b.keys[i])) \in DOMAIN store
    /\ Range(r.imported_hashes) =
           {hash_api_key(OpenRouterKeyCreate(b.keys[i])) : i \in valid} \ b.before
    /\ Cardinality(Range(r.imported_hashes)) = Len(r.imported_hashes)

ImportedPastDuplicate ==
    LET b == hist.last_bulk IN
    /\ Len(b.keys) = 3
    /\ b.before = {}
    /\ b.keys[1].core = "sk1"
    /\ b.keys[2] = [core |-> "sk1", pad |-> TRUE]
    /\ b.keys[3].core = "sk2"
    /\ b.response.imported_hashes = <<"k1", "k2">>
    /\ b.response.errors = <<"exists">>
    /\ {"k1", "k2"} \subseteq active

\* C21: when the store raises while the rate limit of a request is checked,
\* the request is let through and is not answered 429.
LimiterFailsOpen ==
    /\ chist.limiter.status # "none" /\ ~chist.limiter.up
       => chist.limiter.status = "call_next"

AllowedDuringOutage ==
    /\ ~chist.limiter.up
    /\ chist.limiter.status = "call_next"
    /\ chist.limiter.count >= 1
    /\ rate[chist.limiter.user].minute = now \div 60

WriteFailureReported ==
    /\ chist.fault.op # "none" => ~chist.fault.ok
    /\ hist.unstored = {}

\* C24: the round-robin cursor advances once per select_key call: successive
\* calls of the round-robin rotator over the same list of n keys return n
\* distinct keys, so with two keys or more no two successive calls return the
\* same key.
RoundRobinDistinct ==
    /\ Cardinality(Range(hist.run)) = Len(hist.run)
    /\ hist.run # <<>> => /\ Len(hist.run) <= Len(hist.last_avail)
                          /\ hist.run[Len(hist.run)] = hist.last_sel
                          /\ rr_index["round_robin"] < Len(hist.last_avail)

RoundRobinCycle ==
    /\ strategy = "round_robin"
    /\ Len(hist.last_avail) = 2
    /\ Len(hist.run) = 2
    /\ hist.run[1] = hist.last_avail[2]
    /\ hist.run[2] = hist.last_avail[1]

\* A breaker that is open and whose recovery timeout has not elapsed at t.
HeldOpen(b, t) ==
    /\ b.state = "open"
    /\ b.last_failure_time # None
    /\ t - b.last_failure_time <= recovery_timeout

\* C25 as stated: all rotators share one breaker per fingerprint, so the
\* rotators agree on every breaker, and a key whose breaker is open is not
\* selected under any strategy within the recovery timeout.
SharedBreakers ==
    /\ [](\A k \in Keys : \A s1 \in rotators : \A s2 \in rotators :
             cb[s1][k] = cb[s2][k])
    /\ [][\A k \in Keys : handed'[k] > handed[k] =>
              \A s \in rotators : ~HeldOpen(cb[s][k], now)]_vars

\* The breaker the last call was made on, as the call left it.
Called == cb[strategy][hist.last_call.key]

\* C26 as stated: can_execute on an open breaker when now - last_failure_time
\* is at least recovery_timeout moves the breaker to half-open with
\* half_open_calls 0 and returns true; an earlier query leaves the breaker as
\* it was and returns false.
OpenRecoversAtTimeout ==
    LET c == hist.last_call IN
    (c.op = "can_execute" /\ c.before.state = "open"
                          /\ c.before.last_failure_time # None) =>
        IF c.at - c.before.last_failure_time >= recovery_timeout
        THEN c.ok /\ Called.state = "half_open" /\ Called.half_open_calls = 0
        ELSE ~c.ok /\ Called = c.before

\* C27: a closed breaker has fewer consecutive failures than the threshold; a
\* failure in closed counts, records the time, and opens the breaker exactly
\* when the count reaches the threshold; a success in closed resets the count
\* and leaves the breaker closed.
ClosedUntilThreshold ==
    LET c == hist.last_call IN
    /\ \A s \in Strategies : \A k \in Keys :
          cb[s][k].state = "closed" => cb[s][k].failure_count < failure_threshold
    /\ (c.op = "on_failure" /\ c.before.state = "closed") =>
          /\ Called.failure_count = c.before.failure_count + 1
          /\ Called.last_failure_time = c.at
          /\ Called.state = IF Called.failure_count >= failure_threshold
                            THEN "open" ELSE "closed"
    /\ (c.op = "on_success" /\ c.before.state = "closed") =>
          /\ Called.state = "closed"
          /\ Called.failure_count = 0

OpenedAtThreshold ==
    /\ hist.last_call.op = "on_failure"
    /\ hist.last_call.before.state = "closed"
    /\ hist.last_call.before.failure_count = failure_threshold - 1
    /\ Called.state = "open"
    /\ Called.last_failure_time = hist.last_call.at

\* C28: a success in half-open closes the breaker with failure_count 0,
\* last_failure_time unset and half_open_calls 0; the closed breaker admits
\* every call and does not count it.
HalfOpenSuccessCloses ==
    LET c == hist.last_call IN
    /\ (c.op = "on_success" /\ c.before.state = "half_open") =>
          /\ Called = CircuitBreaker
          /\ can_execute(Called, now).ok
          /\ on_call_attempt(Called) = Called
    /\ (c.op = "can_execute" /\ c.before.state = "closed") =>
          c.ok /\ Called = c.before
    /\ (c.op = "on_call_attempt" /\ c.before.state = "closed") =>
          Called = c.before

ClosedAfterProbes ==
    /\ hist.last_call.op = "on_success"
    /\ hist.last_call.before.state = "half_open"
    /\ hist.last_call.before.half_open_calls = max_half_open_calls
    /\ hist.last_call.before.failure_count >= failure_threshold
    /\ Called.state = "closed"

\* C29: a failure in half-open reopens the breaker whatever the failure
\* count, records the time and resets half_open_calls; can_execute is then
\* false as long as the recovery timeout has not elapsed again.
HalfOpenFailureReopens ==
    LET c == hist.last_call IN
    (c.op = "on_failure" /\ c.before.state = "half_open") =>
        /\ Called.state = "open"
        /\ Called.failure_count = c.before.failure_count + 1
        /\ Called.last_failure_time = c.at
        /\ Called.half_open_calls = 0
        /\ now - c.at < recovery_timeout => ~can_execute(Called, now).ok

ReopenedBelowThreshold ==
    /\ hist.last_call.op = "on_failure"
    /\ hist.last_call.before.state = "half_open"
    /\ hist.last_call.before.half_open_calls > 0
    /\ Called.failure_count < failure_threshold
    /\ Called.state = "open"
    /\ now - hist.last_call.at = 30

\* C30 as stated, read at the states where no registry operation is between
\* two of its store commands: an upstream key whose failure_count is at least
\* 5 has is_healthy false and is not in openrouter:active, and failure_count
\* is never negative.
FailureCounterDisables ==
    (\A p \in Procs : cpc[p] = "idle") =>
        \A k \in DOMAIN store :
            /\ store[k].failure_count >= 0
            /\ store[k].failure_count >= disable_threshold =>
                  ~store[k].is_healthy /\ k \notin active

\* C31 as stated: a further attempt of a request starts only out of the
\* backoff sleep that follows the failed attempt, after an upstream 429, an
\* upstream 5xx and a transport error alike.
BackoffBetweenAttempts ==
    [][\A r \in Reqs :
          (attempt'[r] = attempt[r] + 1 /\ pc'[r] = "select") => pc[r] = "backoff"]_vars

\* A stored key whose rate-limit reset lies ahead of t.
Limited(st, k, t) ==
    /\ k \in DOMAIN st
    /\ st[k].rate_limit_reset # None
    /\ t < st[k].rate_limit_reset

NoResponseLeftOpen ==
    \A r \in Reqs : pc[r] \in {"done", "cancelled"} => r \notin hist.open

\* C34 as stated: at most one maintenance task runs, and the task exits only
\* with every restoration it has begun completed: a key whose record reset
\* was written is in openrouter:active when the task is gone.
MaintenanceFlushes ==
    /\ [](Cardinality({p \in Procs : clocal[p].op = "cleanup_loop"}) <= 1)
    /\ [][\A p \in Procs :
             (clocal[p].op = "cleanup_loop" /\ cpc[p] = "cleanup_sadd"
                 /\ cpc'[p] = "idle") => clocal[p].key \in active']_vars

\* C35 as stated: an outcome reported for a fingerprint that has no record
\* leaves the store as it is: no record is created and openrouter:active is
\* unchanged.
ReportsOnAbsentKeyIgnored ==
    [][\A k \in Keys :
          (handed'[k] < handed[k] /\ k \notin DOMAIN store) =>
              store' = store /\ active' = active]_vars

\* C36: half_open_calls is 0 in a closed and in an open breaker and at most
\* max_half_open_calls in a half-open one, under select_key, report_success,
\* report_failure and reset_circuit_breaker in any order.
HalfOpenCallsBounded ==
    \A s \in Strategies, k \in Keys :
        /\ cb[s][k].state \in {"closed", "open"} => cb[s][k].half_open_calls = 0
        /\ cb[s][k].state = "half_open" =>
              /\ cb[s][k].half_open_calls >= 0
              /\ cb[s][k].half_open_calls <= max_half_open_calls

HalfOpenCallsAtMax ==
    \E k \in Keys : /\ cb[strategy][k].state = "half_open"
                    /\ cb[strategy][k].half_open_calls = max_half_open_calls
                    /\ handed[k] >= max_half_open_calls

\* C37 as stated: an open breaker has its last_failure_time set.
OpenHasLastFailure ==
    \A s \in Strategies, k \in Keys :
        cb[s][k].state = "open" => cb[s][k].last_failure_time # None

\* C38 as stated: every probe is resolved, so a breaker that is half-open
\* with half_open_calls at the maximum still has a request in flight whose
\* outcome will release it.
ProbesResolved ==
    \A k \in Keys :
        (cb[strategy][k].state = "half_open"
            /\ cb[strategy][k].half_open_calls = max_half_open_calls)
        => handed[k] > 0

\* C39 as stated: an attempt in which select_key returned None reports no
\* failure: it leaves every record, openrouter:active and every breaker as
\* they are, also when an earlier attempt of the request selected a key.
NilAttemptReportsNothing ==
    [][\A r \in Reqs :
          (hist'.att[r].sel = "nil" /\ hist'.fails[r] = hist.fails[r] + 1) =>
              store' = store /\ active' = active /\ cb' = cb]_vars

\* C40 as stated: every record that is active, healthy and not rate-limited
\* is a member of openrouter:active and is returned by
\* get_healthy_openrouter_keys.
EligibleAreListed ==
    \A k \in DOMAIN store :
        (store[k].complete /\ is_eligible(store[k], now)) =>
            k \in active /\ k \in Listed

====
